---- MODULE Spec2Model ----
(***************************************************************************)
(* rainbow: the output classifier (parsetext / parseescapesequence /       *)
(* parseutf8 driven by output()) and the relay session (loop / parent)     *)
(* of rainbow.c.                                                           *)
(*                                                                         *)
(* Bytes are integers 0..255.  stdout is modelled by the sequence of       *)
(* items the last operation wrote to it: a child byte is [kind |-> "byte", *)
(* v |-> b]; one colour-set sequence ESC[38;2;R;G;Bm is [kind |->          *)
(* "colour", v |-> p] with p the phase it was computed from (times         *)
(* spread, so that it stays an integer).                                   *)
(***************************************************************************)
EXTENDS Integers, Sequences, FiniteSets, TLC

VARIABLES
  parser,      \* output(): static parserfunction parser
  row,         \* output(): static int row
  column,      \* output(): static int column
  keep,        \* output(): static char keep[1024], its first keepi bytes
  prevrow,     \* parseescapesequence(): static int prevrow
  prevcolumn,  \* parseescapesequence(): static int prevcolumn
  os,          \* loop(): float os, drawn once per session
  buf,         \* loop(): char buf[1024], its first nread bytes
  wrote,       \* what the last operation wrote to stdout
  nreads,      \* number of reads of the pty master that returned bytes
  pc,          \* parent() / loop(): the statement the process is at
  readfds,     \* loop(): fd_set readfds as select() left it
  child,       \* the child process: "running" or "exited"
  sigchld,     \* a SIGCHLD is pending for the process
  fdslave,     \* the parent's descriptor of the pty slave: "open" or "closed"
  termios,     \* the mode of the real terminal: "raw" or "original"
  ret,         \* the value parent() returned, once pc = "done"
  fault,       \* history: a system call failed for a reason other than the pty closing
  pre,         \* history: parser, row, column, keep when output() was last called
  entered,     \* history: ESC[?1049h has completed at least once
  entry,       \* history: row, column when ESC[?1049h last completed
  fed,         \* history: all the bytes output() has been given, call after call
  total,       \* history: all that output() has written, call after call
  tomaster,    \* the bytes the last write() on the pty master passed to it
  handler,     \* signals() has installed the SIGCHLD handler
  failed,      \* history: the set-up calls that have failed, in either process
  childret,    \* the value child() returned in the child process, 0 while it has not
  rgb,         \* ansicolour8bit(): the arguments red, green, blue
  colour,      \* ansicolour8bit(): int colour, 0 before the call
  fdmaster,    \* src/rainbow.c: the parent's descriptor of the pty master
  state,       \* src/rainbow.c output(): static enum state
  loopi,       \* src/rainbow.c loop(): int i
  nread,       \* loop(): int nread, the value of the last read()
  errno,       \* errno, as the last failed system call of loop() left it
  stdouterr,   \* the error indicator of stdout, what ferror(stdout) returns
  flushes,     \* output(): the calls of fflush() that have failed in this call
  nwritten     \* loop(): what the last write(fdmaster, buf, nread) returned

classifierVars == <<parser, row, column, keep, prevrow, prevcolumn>>

historyVars == <<pre, entered, entry, fed, total>>

ioVars == <<nread, errno, stdouterr, flushes, nwritten>>

sessionVars ==
  <<pc, readfds, child, sigchld, fdslave, termios, ret, fault, ioVars>>

setupVars == <<handler, failed, childret>>

colourVars == <<rgb, colour>>

oldVars == <<fdmaster, state, loopi>>

vars == <<classifierVars, os, buf, wrote, nreads, sessionVars, historyVars,
          tomaster, setupVars, colourVars, oldVars>>

----------------------------------------------------------------------------
(* Bounds of the model. *)

MaxReads == 3

MaxFullScreenReads == 5

MaxFlushErrors == 1

(* Program constants. *)

ESC == 27
NUL == 0
BEL == 7
BS == 8
TAB == 9
LF == 10
CR == 13
HighBit == 128
TabStop == 8
Spread == 3

----------------------------------------------------------------------------
(* Items written to stdout. *)

ByteItem(b) == [kind |-> "byte", v |-> b]

ColourItem(p) == [kind |-> "colour", v |-> p]

RECURSIVE Items(_)
Items(s) == IF s = <<>> THEN <<>> ELSE <<ByteItem(Head(s))>> \o Items(Tail(s))

(* The child bytes among the items written: the colour-set sequences removed. *)
RECURSIVE ChildBytes(_)
ChildBytes(w) ==
  IF w = <<>> THEN <<>>
  ELSE IF Head(w).kind = "byte" THEN <<Head(w).v>> \o ChildBytes(Tail(w))
  ELSE ChildBytes(Tail(w))

NumColours(w) == Cardinality({i \in 1..Len(w) : w[i].kind = "colour"})

----------------------------------------------------------------------------
(* C library. *)

(* isalpha() / isdigit() in the "C" locale (the program never calls *)
(* setlocale); both answer 0 for every byte with the high bit set.   *)
isalpha(ch) == (ch >= 65 /\ ch <= 90) \/ (ch >= 97 /\ ch <= 122)

isdigit(ch) == ch >= 48 /\ ch <= 57

(* C's a % b for b > 0: the remainder has the sign of a. *)
CRem(a, b) == IF a >= 0 THEN a % b ELSE -((-a) % b)

(* The bytes of a char array that fputs() writes: those before the first NUL. *)
RECURSIVE CString(_)
CString(s) ==
  IF s = <<>> \/ Head(s) = NUL THEN <<>> ELSE <<Head(s)>> \o CString(Tail(s))

fputs(s) == Items(CString(s))

fputc(ch) == <<ByteItem(ch)>>

----------------------------------------------------------------------------
(* Colour engine. *)

(* The phase rainbow() is called with, os + row + column / spread, times spread. *)
Phase(o, r, c) == Spread * (o + r) + c

ansicolour24bit(o, r, c) == <<ColourItem(Phase(o, r, c))>>

ansicolourreset == Items(<<ESC, 91, 48, 109>>)   \* "\x1b[0m"

----------------------------------------------------------------------------
(* parsenandm(): s is the text after "ESC [". *)

RECURSIVE ScanDigits(_, _, _)
ScanDigits(s, i, acc) ==
  IF i <= Len(s) /\ isdigit(s[i])
  THEN ScanDigits(s, i + 1, acc * 10 + (s[i] - 48))
  ELSE <<acc, i>>

(* parsenandm() that scans m from the ';' itself instead of the byte after it. *)
parsenandmSemicolonNotSkipped(s) ==
  LET first == ScanDigits(s, 1, 0)
      n == first[1]
      p == first[2]
  IN IF p > Len(s) \/ s[p] # 59
     THEN [n |-> n, m |-> 0]
     ELSE [n |-> n, m |-> ScanDigits(s, p, 0)[1]]

parsenandm(s) ==
  LET first == ScanDigits(s, 1, 0)
      n == first[1]
      p == first[2]
  IN IF p > Len(s) \/ s[p] # 59        \* ';'
     THEN [n |-> n, m |-> 0]
     ELSE [n |-> n, m |-> ScanDigits(s, p + 1, 0)[1]]

----------------------------------------------------------------------------
(* The classifier.  A parser state st is a record of the statics the *)
(* parser functions read and write, with out the items written so far *)
(* in this call of output().                                          *)

xtermenablealternativebuffer == <<ESC, 91, 63, 49, 48, 52, 57, 104>>    \* "\x1b[?1049h"

xtermdisablealternativebuffer == <<ESC, 91, 63, 49, 48, 52, 57, 108>>   \* "\x1b[?1049l"

(* keep[*keepi] = '\0'; fputs(keep, stdout); *keepi = 0; return parsetext; *)
EmitKeep(st, k) ==
  [st EXCEPT !.out = st.out \o fputs(k), !.keep = <<>>, !.parser = "parsetext"]

(* The switch on the CSI terminator. *)
CsiCursor(st, final, n, m) ==
  CASE final = 65  -> [st EXCEPT !.row = st.row - n]                     \* 'A'
    [] final = 66  -> [st EXCEPT !.row = st.row + n]                     \* 'B'
    [] final = 67  -> [st EXCEPT !.column = st.column + n]               \* 'C'
    [] final = 68  -> [st EXCEPT !.column = st.column - n]               \* 'D'
    [] final = 69  -> [st EXCEPT !.row = st.row + n, !.column = 1]       \* 'E'
    [] final = 70  -> [st EXCEPT !.row = st.row - n, !.column = 1]       \* 'F'
    [] final = 71  -> [st EXCEPT !.column = n]                           \* 'G'
    [] final = 72  -> [st EXCEPT !.row = n, !.column = m]                \* 'H'
    [] final = 102 -> [st EXCEPT !.row = n, !.column = m]                \* 'f'
    [] OTHER       -> st

(* The same, with the restore of the column forgotten. *)
AltScreenRestoresRowOnly(st, k) ==
  IF k = xtermenablealternativebuffer
  THEN [st EXCEPT !.prevrow = st.row, !.prevcolumn = st.column]
  ELSE IF k = xtermdisablealternativebuffer
  THEN [st EXCEPT !.row = st.prevrow]
  ELSE IF Len(k) = 2 /\ k[2] = 99
  THEN [st EXCEPT !.row = 1, !.column = 1]
  ELSE st

(* The alternate-screen save / restore and the RIS reset. *)
AltScreenAndReset(st, k) ==
  IF k = xtermenablealternativebuffer
  THEN [st EXCEPT !.prevrow = st.row, !.prevcolumn = st.column]
  ELSE IF k = xtermdisablealternativebuffer
  THEN [st EXCEPT !.row = st.prevrow, !.column = st.prevcolumn]
  ELSE IF Len(k) = 2 /\ k[2] = 99                                        \* 'c'
  THEN [st EXCEPT !.row = 1, !.column = 1]
  ELSE st

(* A variant of OtherComplete in which BEL ends a sequence of any form. *)
OtherCompleteBelEndsAny(k) ==
  LET i == Len(k) IN
    \/ k[i] = BEL
    \/ k[2] = 93 /\ k[i - 1] = ESC /\ k[i] = 92
    \/ k[2] = 80 /\ k[i - 1] = ESC /\ k[i] = 92
    \/ i = 3 /\ k[2] = 40
    \/ i = 3 /\ k[2] = 41
    \/ i = 2 /\ k[2] = 61
    \/ i = 2 /\ k[2] = 62
    \/ i = 2 /\ k[2] = 55
    \/ i = 2 /\ k[2] = 56
    \/ i = 2 /\ k[2] = 72
    \/ i = 2 /\ k[2] = 77
    \/ i = 2 /\ k[2] = 99

(* OSC, DCS and the fixed-length forms. *)
OtherComplete(k) ==
  LET i == Len(k) IN
    \/ k[2] = 93 /\ k[i] = BEL                                           \* ']' ... BEL
    \/ k[2] = 93 /\ k[i - 1] = ESC /\ k[i] = 92                          \* ']' ... ESC '\'
    \/ k[2] = 80 /\ k[i - 1] = ESC /\ k[i] = 92                          \* 'P' ... ESC '\'
    \/ i = 3 /\ k[2] = 40                                                \* '('
    \/ i = 3 /\ k[2] = 41                                                \* ')'
    \/ i = 2 /\ k[2] = 61                                                \* '='
    \/ i = 2 /\ k[2] = 62                                                \* '>'
    \/ i = 2 /\ k[2] = 55                                                \* '7'
    \/ i = 2 /\ k[2] = 56                                                \* '8'
    \/ i = 2 /\ k[2] = 72                                                \* 'H'
    \/ i = 2 /\ k[2] = 77                                                \* 'M'
    \/ i = 2 /\ k[2] = 99                                                \* 'c'

(* The screen / tmux title rule. *)
TitleComplete(k) == k[2] = 107 \/ k[2] = 92                              \* 'k', '\'

parseescapesequence(st, ch) ==
  LET k == Append(st.keep, ch)
      i == Len(k)
      st1 == AltScreenAndReset(st, k)
  IN IF k[2] = 91 /\ (isalpha(k[i]) \/ k[i] = 64)                        \* '[' ... letter or '@'
     THEN LET nm == parsenandm(SubSeq(k, 3, i))
              n == IF nm.n = 0 THEN 1 ELSE nm.n
              m == IF nm.m = 0 THEN 1 ELSE nm.m
          IN EmitKeep(CsiCursor(st1, k[i], n, m), k)
     ELSE IF OtherComplete(k) THEN EmitKeep(st1, k)
     ELSE IF TitleComplete(k) THEN EmitKeep(st1, k)
     ELSE [st1 EXCEPT !.keep = k, !.parser = "parseescapesequence"]

(* The accumulated length at which a character with lead byte keep[0] closes. *)
Utf8Closes(k) ==
  LET i == Len(k) IN
    \/ i = 2 /\ k[1] \div 32 = 6       \* 0b110
    \/ i = 3 /\ k[1] \div 16 = 14      \* 0b1110
    \/ i = 4 /\ k[1] \div 8 = 30       \* 0b11110

(* A variant of parseutf8 in which ESC abandons the character and begins *)
(* an escape sequence.                                                   *)
parseutf8EscBeginsSequence(st, ch) ==
  LET k == Append(st.keep, ch)
  IN IF ch = ESC
     THEN [st EXCEPT !.keep = <<ESC>>, !.parser = "parseescapesequence"]
     ELSE IF Utf8Closes(k)
     THEN LET c == st.column + 1
          IN [st EXCEPT !.column = c,
                        !.out = st.out \o ansicolour24bit(st.os, st.row, c) \o fputs(k),
                        !.keep = <<>>,
                        !.parser = "parsetext"]
     ELSE [st EXCEPT !.keep = k, !.parser = "parseutf8"]

parseutf8(st, ch) ==
  LET k == Append(st.keep, ch)
  IN IF Utf8Closes(k)
     THEN LET c == st.column + 1
          IN [st EXCEPT !.column = c,
                        !.out = st.out \o ansicolour24bit(st.os, st.row, c) \o fputs(k),
                        !.keep = <<>>,
                        !.parser = "parsetext"]
     ELSE [st EXCEPT !.keep = k, !.parser = "parseutf8"]

(* The cursor rule with tab stops counted from column 1: 1, 9, 17, ... *)
TextCursorTabStopsFromOne(st, ch) ==
  IF ch = LF THEN [st EXCEPT !.row = st.row + 1, !.column = 1]
  ELSE IF ch = BS THEN [st EXCEPT !.column = st.column - 1]
  ELSE IF ch = CR THEN [st EXCEPT !.column = 1]
  ELSE IF ch = TAB
  THEN [st EXCEPT !.column = st.column + (TabStop - CRem(st.column - 1, TabStop))]
  ELSE [st EXCEPT !.column = st.column + 1]

(* The cursor rule of parsetext for a byte that is neither ESC nor high-bit. *)
TextCursor(st, ch) ==
  IF ch = LF THEN [st EXCEPT !.row = st.row + 1, !.column = 1]
  ELSE IF ch = BS THEN [st EXCEPT !.column = st.column - 1]
  ELSE IF ch = CR THEN [st EXCEPT !.column = 1]
  ELSE IF ch = TAB THEN [st EXCEPT !.column = st.column + (TabStop - CRem(st.column, TabStop))]
  ELSE [st EXCEPT !.column = st.column + 1]

(* parsetext() that computes the colour before it updates the cursor. *)
parsetextColourBeforeCursor(st, ch) ==
  IF ch = ESC
  THEN [st EXCEPT !.keep = <<ch>>, !.parser = "parseescapesequence"]
  ELSE IF ch >= HighBit
  THEN [st EXCEPT !.keep = <<ch>>, !.parser = "parseutf8"]
  ELSE LET st1 == TextCursor(st, ch)
       IN [st1 EXCEPT !.out = st1.out \o ansicolour24bit(st.os, st.row, st.column)
                                    \o fputc(ch)]

parsetext(st, ch) ==
  IF ch = ESC
  THEN [st EXCEPT !.keep = <<ch>>, !.parser = "parseescapesequence"]
  ELSE IF ch >= HighBit
  THEN [st EXCEPT !.keep = <<ch>>, !.parser = "parseutf8"]
  ELSE LET st1 == TextCursor(st, ch)
       IN [st1 EXCEPT !.out = st1.out \o ansicolour24bit(st1.os, st1.row, st1.column)
                                    \o fputc(ch)]

(* parser = parser(freq, spread, os, &row, &column, keep, &keepi, buf[i]) *)
ParserStep(st, ch) ==
  CASE st.parser = "parsetext" -> parsetext(st, ch)
    [] st.parser = "parseescapesequence" -> parseescapesequence(st, ch)
    [] st.parser = "parseutf8" -> parseutf8(st, ch)

(* The for loop of output() over buf[0 .. count - 1]: the bytes of b one *)
(* after the other.  It is evaluated as the first half of b, then the    *)
(* second half from the state the first has left, so that a read of      *)
(* hundreds of bytes nests only a few levels deep.                       *)
RECURSIVE Feed(_, _)
Feed(st, b) ==
  IF b = <<>> THEN st
  ELSE IF Len(b) = 1 THEN ParserStep(st, b[1])
  ELSE LET h == Len(b) \div 2
           first == Feed(st, SubSeq(b, 1, h))
       IN CASE first.parser \in {"parsetext", "parseescapesequence", "parseutf8"} ->
                 Feed(first, SubSeq(b, h + 1, Len(b)))

(* A variant of Statics in which the parser and the accumulated bytes *)
(* are not static: every call of output() begins in parsetext.        *)
StaticsParserPerCall ==
  [parser |-> "parsetext", row |-> row, column |-> column, keep |-> <<>>,
   prevrow |-> prevrow, prevcolumn |-> prevcolumn, os |-> os, out |-> <<>>]

Statics ==
  [parser |-> parser, row |-> row, column |-> column, keep |-> keep,
   prevrow |-> prevrow, prevcolumn |-> prevcolumn, os |-> os, out |-> <<>>]

(* output(stdout, buf, count, freq, spread, os): the loop, then the flush. *)
output(b) ==
  LET st == Feed(Statics, b)
  IN /\ parser' = st.parser
     /\ row' = st.row
     /\ column' = st.column
     /\ keep' = st.keep
     /\ prevrow' = st.prevrow
     /\ prevcolumn' = st.prevcolumn
     /\ wrote' = st.out

----------------------------------------------------------------------------
(* What the child writes: the chunks one read of the pty master returns. *)

TextChunks ==
  { <<97>>,                     \* "a"
    <<LF>>, <<CR>>, <<BS>>, <<TAB>>, <<NUL>>,
    <<65, ESC, 91, 51, 49, 109, 66, LF>> }   \* "A\x1b[31mB\n"

Utf8Chunks ==
  { <<195, 169>>,               \* U+00E9
    <<226, 130, 172>>,          \* U+20AC, the Euro sign
    <<240, 159, 152, 128>>,     \* U+1F600
    <<226>>, <<130>>, <<172>>,  \* a lead byte and continuation bytes alone
    <<195, NUL>> }              \* a lead byte followed by NUL

CsiChunks ==
  { <<ESC, 91, 53, 59, 49, 48, 72>>,   \* ESC [ 5 ; 1 0 H
    <<ESC, 91, 50, 65>>,               \* ESC [ 2 A
    <<ESC, 91, 66>>,                   \* ESC [ B
    <<ESC, 91, 51, 67>>,               \* ESC [ 3 C
    <<ESC, 91, 68>>,                   \* ESC [ D
    <<ESC, 91, 50, 69>>,               \* ESC [ 2 E
    <<ESC, 91, 70>>,                   \* ESC [ F
    <<ESC, 91, 55, 71>>,               \* ESC [ 7 G
    <<ESC, 91, 51, 59, 52, 102>>,      \* ESC [ 3 ; 4 f
    <<ESC, 91, 48, 59, 48, 72>>,       \* ESC [ 0 ; 0 H
    <<ESC, 91, 50, 64>>,               \* ESC [ 2 @
    <<ESC, 91, 51, 49, 109>>,          \* ESC [ 3 1 m
    <<ESC, 91, NUL, 65>>,              \* ESC [ NUL A
    xtermenablealternativebuffer,
    xtermdisablealternativebuffer }

StringChunks ==
  { <<ESC, 93, 48, 59, 116, BEL>>,          \* ESC ] 0 ; t BEL
    <<ESC, 93, 48, 59, 116, ESC, 92>>,      \* ESC ] 0 ; t ESC \
    <<ESC, 93, 48, 59, NUL, 116, BEL>>,     \* ESC ] 0 ; NUL t BEL
    <<ESC, 80, 113, ESC, 92>>,              \* ESC P q ESC \
    <<ESC, 107, 116, ESC, 92>> }            \* ESC k t ESC \

LegacyChunks ==
  { <<ESC, 40, 66>>,    \* ESC ( B
    <<ESC, 41, 48>>,    \* ESC ) 0
    <<ESC, 40, NUL>>,   \* ESC ( NUL
    <<ESC, 61>>,        \* ESC =
    <<ESC, 62>>,        \* ESC >
    <<ESC, 55>>,        \* ESC 7
    <<ESC, 56>>,        \* ESC 8
    <<ESC, 72>>,        \* ESC H
    <<ESC, 77>>,        \* ESC M
    <<ESC, 99>>,        \* ESC c
    <<ESC>>,            \* ESC alone: the rest comes with the next read
    <<ESC, 88>> }       \* ESC X: begins no recognised form

Chunks == TextChunks \cup Utf8Chunks \cup CsiChunks \cup StringChunks \cup LegacyChunks

Offsets == {0, 7}

----------------------------------------------------------------------------
(* The state when loop() is entered: parent() has put the terminal in raw *)
(* mode, the child runs, nothing has been read.                           *)

InitClassifier ==
  /\ parser = "parsetext"
  /\ row = 1
  /\ column = 1
  /\ keep = <<>>
  /\ prevrow = 0
  /\ prevcolumn = 0
  /\ os \in Offsets
  /\ buf = <<>>
  /\ wrote = <<>>
  /\ nreads = 0
  /\ pre = [parser |-> "parsetext", row |-> 1, column |-> 1, keep |-> <<>>]
  /\ entered = FALSE
  /\ entry = [row |-> 0, column |-> 0]
  /\ fed = <<>>
  /\ total = <<>>

InitLoop ==
  /\ pc = "select"
  /\ readfds = {}
  /\ child = "running"
  /\ sigchld = FALSE
  /\ fdslave = "open"
  /\ termios = "raw"
  /\ ret = 0
  /\ fault = FALSE
  /\ nread = 0
  /\ errno = "none"
  /\ stdouterr = FALSE
  /\ flushes = 0
  /\ nwritten = 0
  /\ tomaster = <<>>
  /\ handler = TRUE
  /\ failed = {}
  /\ childret = 0

(* ansicolour8bit() has not been called. *)
InitColour ==
  /\ rgb = [red |-> 0, green |-> 0, blue |-> 0]
  /\ colour = 0

(* src/rainbow.c: the state when its loop() is entered. *)
InitOld ==
  /\ fdmaster = "open"
  /\ state = "text"
  /\ loopi = 0

Init == InitClassifier /\ InitLoop /\ InitColour /\ InitOld

(* read(fdmaster) returned the bytes b and loop() passed them to output(). *)
OutputCall(b) ==
  /\ nreads' = nreads + 1
  /\ buf' = b
  /\ output(b)
  /\ pre' = [parser |-> parser, row |-> row, column |-> column, keep |-> keep]
  /\ entered' = (entered \/ (parser = "parsetext" /\ b = xtermenablealternativebuffer))
  /\ entry' = IF parser = "parsetext" /\ b = xtermenablealternativebuffer
              THEN [row |-> row, column |-> column]
              ELSE entry
  /\ UNCHANGED <<os, fed, total>>

----------------------------------------------------------------------------
(* The classifier fed by successive reads of the pty master: one iteration *)
(* of loop() in which select() reports the pty master alone and read()      *)
(* returns a chunk.                                                         *)

Relay(b) ==
  /\ pc = "select"
  /\ nreads < MaxReads
  /\ OutputCall(b)
  /\ UNCHANGED <<sessionVars, tomaster, setupVars, colourVars, oldVars>>

Next == \E b \in Chunks : Relay(b)

Spec == Init /\ [][Next]_vars

(* The same with what a full-screen program writes, for more reads. *)

FullScreenChunks ==
  { xtermenablealternativebuffer,
    xtermdisablealternativebuffer,
    <<ESC, 99>>,                         \* ESC c
    <<ESC, 91, 53, 59, 49, 48, 72>>,     \* ESC [ 5 ; 1 0 H
    <<ESC, 91, 50, 65>>,                 \* ESC [ 2 A
    <<ESC, 91, 51, 67>>,                 \* ESC [ 3 C
    <<97>>, <<LF>>, <<TAB>>, <<BS>>,
    <<226, 130, 172>> }

FullScreenRelay(b) ==
  /\ pc = "select"
  /\ nreads < MaxFullScreenReads
  /\ OutputCall(b)
  /\ UNCHANGED <<sessionVars, tomaster, setupVars, colourVars, oldVars>>

FullScreenNext == \E b \in FullScreenChunks : FullScreenRelay(b)

FullScreenSpec == Init /\ [][FullScreenNext]_vars

(* The same with reads that begin, continue, end or fail to end an *)
(* escape sequence or a multi-byte character.                        *)

ParserChunks ==
  { <<97>>, <<NUL>>,
    <<ESC>>,
    <<91>>, <<50>>, <<65>>,                   \* [ 2 A
    <<93>>, <<BEL>>, <<92>>, <<107>>,         \* ] BEL \ k
    <<88>>,                                   \* X
    <<ESC, 88>>,                              \* ESC X
    <<ESC, 91, 50, 65>>,                      \* ESC [ 2 A
    <<ESC, 93, 48, 59, 116, BEL>>,            \* ESC ] 0 ; t BEL
    <<226>>, <<130>>, <<195, 169>>, <<255>> }

ParserRelay(b) ==
  /\ pc = "select"
  /\ nreads < MaxReads
  /\ OutputCall(b)
  /\ UNCHANGED <<sessionVars, tomaster, setupVars, colourVars, oldVars>>

ParserNext == \E b \in ParserChunks : ParserRelay(b)

ParserSpec == Init /\ [][ParserNext]_vars

(* The same with a stream of the child cut into reads at every place, *)
(* and with the two histories kept.                                   *)

SplitChunks ==
  { <<97>>, <<LF>>, <<TAB>>,
    <<ESC>>, <<91>>, <<53, 59>>, <<49, 48, 72>>,     \* ESC  [  5;  10H
    <<ESC, 91>>, <<53, 59, 49, 48, 72>>,
    <<ESC, 91, 53, 59, 49, 48, 72>>,
    <<ESC, 91, 63, 49>>, <<48, 52, 57, 104>>,        \* ESC[?1  049h
    <<48, 52, 57, 108>>,                             \* 049l
    xtermenablealternativebuffer,
    xtermdisablealternativebuffer,
    <<226>>, <<130>>, <<172>>,
    <<226, 130>>, <<130, 172>>,
    <<226, 130, 172>>,
    <<ESC, 93, 48>>, <<59, 116, BEL>> }              \* ESC]0  ;t BEL

SplitRelay(b) ==
  /\ pc = "select"
  /\ nreads < MaxReads
  /\ nreads' = nreads + 1
  /\ buf' = b
  /\ output(b)
  /\ pre' = [parser |-> parser, row |-> row, column |-> column, keep |-> keep]
  /\ fed' = fed \o b
  /\ total' = total \o wrote'
  /\ UNCHANGED <<os, entered, entry, sessionVars, tomaster, setupVars,
                 colourVars, oldVars>>

SplitNext == \E b \in SplitChunks : SplitRelay(b)

SplitSpec == Init /\ [][SplitNext]_vars

(* The same with reads that return many bytes, to fill keep. *)

(* static char keep[1024] *)
KeepSize == 1024

(* Half a buffer of "x". *)
Filler == [j \in 1..(KeepSize \div 2) |-> 120]

OverflowChunks ==
  { <<ESC, 88>>,     \* ESC X
    <<226>>,
    <<97>>,
    <<LF>>,
    Filler }

(* Once a byte has been stored past the end of keep the behaviour of the *)
(* program is undefined; the model follows it no further.                *)
OverflowRelay(b) ==
  /\ pc = "select"
  /\ nreads < MaxReads
  /\ Len(keep) <= KeepSize
  /\ OutputCall(b)
  /\ UNCHANGED <<sessionVars, tomaster, setupVars, colourVars, oldVars>>

OverflowNext == \E b \in OverflowChunks : OverflowRelay(b)

OverflowSpec == Init /\ [][OverflowNext]_vars

----------------------------------------------------------------------------
(* The session: loop() and the rest of parent(), the child, and the       *)
(* SIGCHLD handler.  A system call that fails for a reason unrelated to    *)
(* the pty closing sets fault.                                            *)

(* The slave side of the pty has no open descriptor left: the child has *)
(* exited and the handler has closed the parent's own descriptor.        *)
PtyClosed == child = "exited" /\ fdslave = "closed"

SessionChunks == { <<97>>, <<ESC>>, <<91, 50, 65>>, <<226, 130>> }

(* What read(fdstdin) returns: "x", cursor up, and nothing at all, which *)
(* is end-of-file on the real stdin.                                    *)
Keys == { <<120>>, <<ESC, 91, 65>>, <<>> }

(* The values of errno with which select() and read() fail, other than *)
(* those loop() tests for.                                             *)
SelectErrors == { "EINVAL", "ENOMEM" }

StdinErrors == { "EIO", "EBADF" }

MasterErrors == { "EBADF", "EAGAIN" }

(* return returnperror(..., -1) in loop(): parent() returns -1 at once. *)
ReturnError ==
  /\ pc' = "done"
  /\ ret' = -1

(* The child terminates: its descriptors are closed and SIGCHLD is sent, *)
(* which is discarded unless signals() has installed the handler.        *)
ChildExits ==
  /\ pc # "done"
  /\ child = "running"
  /\ child' = "exited"
  /\ sigchld' = handler
  /\ UNCHANGED <<classifierVars, os, buf, wrote, nreads, historyVars, ioVars,
                 tomaster, setupVars, colourVars, oldVars,
                 pc, readfds, fdslave, termios, ret, fault>>

(* The handler runs between two statements of the parent; when it *)
(* interrupts select() instead, that is SelectInterrupted.         *)
signalchildstoppedorterminated ==
  /\ pc # "done"
  /\ sigchld
  /\ sigchld' = FALSE
  /\ fdslave' = "closed"
  /\ UNCHANGED <<classifierVars, os, buf, wrote, nreads, historyVars, ioVars,
                 tomaster, setupVars, colourVars, oldVars,
                 pc, readfds, child, termios, ret, fault>>

(* select() returns the ready descriptors.  The pty master is ready when *)
(* the child has written something or when the slave side is closed.    *)
SelectReady(fds) ==
  /\ pc = "select"
  /\ fds # {}
  /\ "master" \in fds <=> (PtyClosed \/ (child = "running" /\ nreads < MaxReads))
  /\ readfds' = fds
  /\ pc' = IF "stdin" \in fds THEN "readstdin" ELSE "readmaster"
  /\ UNCHANGED <<classifierVars, os, buf, wrote, nreads, historyVars, ioVars,
                 tomaster, setupVars, colourVars, oldVars,
                 child, sigchld, fdslave, termios, ret, fault>>

(* select() fails with EBADF: break. *)
SelectBadDescriptor ==
  /\ pc = "select"
  /\ errno' = "EBADF"
  /\ pc' = "termiosreset"
  /\ fault' = TRUE
  /\ UNCHANGED <<classifierVars, os, buf, wrote, nreads, historyVars,
                 tomaster, setupVars, colourVars, oldVars,
                 readfds, child, sigchld, fdslave, termios, ret,
                 nread, stdouterr, flushes, nwritten>>

(* A variant of SelectInterrupted in which EINTR is an error like any *)
(* other.                                                             *)
SelectInterruptedIsFatal ==
  /\ pc = "select"
  /\ sigchld
  /\ sigchld' = FALSE
  /\ fdslave' = "closed"
  /\ errno' = "EINTR"
  /\ ReturnError
  /\ UNCHANGED <<classifierVars, os, buf, wrote, nreads, historyVars,
                 tomaster, setupVars, colourVars, oldVars,
                 readfds, child, termios, fault,
                 nread, stdouterr, flushes, nwritten>>

(* SIGCHLD arrives while select() waits: the handler runs and select() *)
(* fails with EINTR: continue.                                         *)
SelectInterrupted ==
  /\ pc = "select"
  /\ sigchld
  /\ sigchld' = FALSE
  /\ fdslave' = "closed"
  /\ errno' = "EINTR"
  /\ pc' = "select"
  /\ UNCHANGED <<classifierVars, os, buf, wrote, nreads, historyVars,
                 tomaster, setupVars, colourVars, oldVars,
                 readfds, child, termios, ret, fault,
                 nread, stdouterr, flushes, nwritten>>

(* select() fails with another error. *)
SelectError ==
  /\ pc = "select"
  /\ \E e \in SelectErrors : errno' = e
  /\ ReturnError
  /\ fault' = TRUE
  /\ UNCHANGED <<classifierVars, os, buf, wrote, nreads, historyVars,
                 tomaster, setupVars, colourVars, oldVars,
                 readfds, child, sigchld, fdslave, termios,
                 nread, stdouterr, flushes, nwritten>>

AfterStdin == IF "master" \in readfds THEN "readmaster" ELSE "select"

(* read(fdstdin) fails. *)
ReadStdinError ==
  /\ pc = "readstdin"
  /\ nread' = -1
  /\ \E e \in StdinErrors : errno' = e
  /\ ReturnError
  /\ fault' = TRUE
  /\ UNCHANGED <<classifierVars, os, buf, wrote, nreads, historyVars,
                 tomaster, setupVars, colourVars, oldVars,
                 readfds, child, sigchld, fdslave, termios,
                 stdouterr, flushes, nwritten>>

(* A variant of ForwardKeys that goes on after a write() that took only *)
(* the first byte.                                                     *)
ForwardKeysShortWriteIgnored(k) ==
  /\ pc = "readstdin"
  /\ buf' = k
  /\ nread' = Len(k)
  /\ nwritten' = IF k = <<>> THEN 0 ELSE 1
  /\ tomaster' = IF k = <<>> THEN <<>> ELSE SubSeq(k, 1, 1)
  /\ pc' = AfterStdin
  /\ UNCHANGED <<classifierVars, os, wrote, nreads, historyVars,
                 setupVars, colourVars, oldVars,
                 readfds, child, sigchld, fdslave, termios, ret, fault,
                 errno, stdouterr, flushes>>

(* read(fdstdin) returns k (nothing at end-of-file) and write(fdmaster) *)
(* takes all of it.                                                     *)
ForwardKeys(k) ==
  /\ pc = "readstdin"
  /\ buf' = k
  /\ nread' = Len(k)
  /\ nwritten' = Len(k)
  /\ tomaster' = k
  /\ pc' = AfterStdin
  /\ UNCHANGED <<classifierVars, os, wrote, nreads, historyVars,
                 setupVars, colourVars, oldVars,
                 readfds, child, sigchld, fdslave, termios, ret, fault,
                 errno, stdouterr, flushes>>

(* read(fdstdin) returns k and write(fdmaster) fails because the slave *)
(* side of the pty is closed (EIO).                                    *)
ForwardKeysPtyClosed(k) ==
  /\ pc = "readstdin"
  /\ PtyClosed
  /\ buf' = k
  /\ nread' = Len(k)
  /\ nwritten' = -1
  /\ errno' = "EIO"
  /\ tomaster' = <<>>
  /\ ReturnError
  /\ UNCHANGED <<classifierVars, os, wrote, nreads, historyVars,
                 setupVars, colourVars, oldVars,
                 readfds, child, sigchld, fdslave, termios, fault,
                 stdouterr, flushes>>

(* read(fdstdin) returns k and write(fdmaster) returns n # nread: -1, or *)
(* the number of bytes it took when it did not take all of them.         *)
ForwardKeysError(k) ==
  /\ pc = "readstdin"
  /\ ~PtyClosed
  /\ buf' = k
  /\ nread' = Len(k)
  /\ \E n \in (-1)..(Len(k) - 1) :
       /\ nwritten' = n
       /\ tomaster' = IF n <= 0 THEN <<>> ELSE SubSeq(k, 1, n)
       /\ errno' = IF n = -1 THEN "EAGAIN" ELSE errno
  /\ ReturnError
  /\ fault' = TRUE
  /\ UNCHANGED <<classifierVars, os, wrote, nreads, historyVars,
                 setupVars, colourVars, oldVars,
                 readfds, child, sigchld, fdslave, termios,
                 stdouterr, flushes>>

(* A variant of ReadMasterClosed in which EIO is an error like any other. *)
ReadMasterClosedEioIsFatal ==
  /\ pc = "readmaster"
  /\ PtyClosed
  /\ \E r \in {0, -1} :
       /\ nread' = r
       /\ errno' = IF r = -1 THEN "EIO" ELSE errno
       /\ IF r = -1
          THEN ReturnError
          ELSE pc' = "termiosreset" /\ ret' = ret
  /\ UNCHANGED <<classifierVars, os, buf, wrote, nreads, historyVars,
                 tomaster, setupVars, colourVars, oldVars,
                 readfds, child, sigchld, fdslave, termios, fault,
                 stdouterr, flushes, nwritten>>

(* read(fdmaster) returns 0 or fails with EIO: break. *)
ReadMasterClosed ==
  /\ pc = "readmaster"
  /\ PtyClosed
  /\ \E r \in {0, -1} :
       /\ nread' = r
       /\ errno' = IF r = -1 THEN "EIO" ELSE errno
  /\ pc' = "termiosreset"
  /\ UNCHANGED <<classifierVars, os, buf, wrote, nreads, historyVars,
                 tomaster, setupVars, colourVars, oldVars,
                 readfds, child, sigchld, fdslave, termios, ret, fault,
                 stdouterr, flushes, nwritten>>

(* read(fdmaster) fails with another error. *)
ReadMasterError ==
  /\ pc = "readmaster"
  /\ nread' = -1
  /\ \E e \in MasterErrors : errno' = e
  /\ ReturnError
  /\ fault' = TRUE
  /\ UNCHANGED <<classifierVars, os, buf, wrote, nreads, historyVars,
                 tomaster, setupVars, colourVars, oldVars,
                 readfds, child, sigchld, fdslave, termios,
                 stdouterr, flushes, nwritten>>

(* read(fdmaster) returns the bytes b: output() runs them through the   *)
(* parser and comes to its flush loop.  A write that stdio made on the  *)
(* way, when its buffer was full, may have failed and set the error     *)
(* indicator.                                                           *)
ReadMaster(b) ==
  /\ pc = "readmaster"
  /\ ~PtyClosed
  /\ nreads < MaxReads
  /\ OutputCall(b)
  /\ nread' = Len(b)
  /\ \E e \in BOOLEAN : stdouterr' = (e /\ wrote' # <<>>)
  /\ flushes' = 0
  /\ pc' = "fflush"
  /\ UNCHANGED <<readfds, child, sigchld, fdslave, termios, ret, fault,
                 errno, nwritten, tomaster, setupVars, colourVars, oldVars>>

(* fflush(stdout) in output(): it fails (e) or not; a failure sets the *)
(* error indicator, and nothing but clearerr() resets it.              *)
fflush(e) ==
  /\ pc = "fflush"
  /\ e => flushes < MaxFlushErrors
  /\ stdouterr' = (stdouterr \/ e)
  /\ flushes' = IF e THEN flushes + 1 ELSE flushes
  /\ pc' = "ferror"
  /\ UNCHANGED <<classifierVars, os, buf, wrote, nreads, historyVars,
                 tomaster, setupVars, colourVars, oldVars,
                 readfds, child, sigchld, fdslave, termios, ret, fault,
                 nread, errno, nwritten>>

(* A variant of clearerr in which output() returns -1 when ferror(stdout) *)
(* is set, and loop() returns returnperror("output()", -1).              *)
clearerrReturnsError ==
  /\ pc = "ferror"
  /\ stdouterr
  /\ ReturnError
  /\ UNCHANGED <<classifierVars, os, buf, wrote, nreads, historyVars,
                 tomaster, setupVars, colourVars, oldVars,
                 readfds, child, sigchld, fdslave, termios, fault,
                 ioVars>>

(* ferror(stdout) is set: clearerr(stdout), and round the loop again. *)
clearerr ==
  /\ pc = "ferror"
  /\ stdouterr
  /\ stdouterr' = FALSE
  /\ pc' = "fflush"
  /\ UNCHANGED <<classifierVars, os, buf, wrote, nreads, historyVars,
                 tomaster, setupVars, colourVars, oldVars,
                 readfds, child, sigchld, fdslave, termios, ret, fault,
                 nread, errno, flushes, nwritten>>

(* ferror(stdout) is not set: break, output() returns 0, which is not *)
(* -1, and loop() goes round again.                                   *)
OutputReturns ==
  /\ pc = "ferror"
  /\ ~stdouterr
  /\ pc' = "select"
  /\ UNCHANGED <<classifierVars, os, buf, wrote, nreads, historyVars,
                 tomaster, setupVars, colourVars, oldVars,
                 readfds, child, sigchld, fdslave, termios, ret, fault,
                 ioVars>>

(* termiosreset(STDIN_FILENO, &t) after loop() returned 0. *)
termiosreset ==
  /\ pc = "termiosreset"
  /\ termios' = "original"
  /\ pc' = "ansicolourreset"
  /\ UNCHANGED <<classifierVars, os, buf, wrote, nreads, historyVars, ioVars,
                 tomaster, setupVars, colourVars, oldVars,
                 readfds, child, sigchld, fdslave, ret, fault>>

(* tcsetattr() fails in termiosreset(): parent() returns -1. *)
TermiosResetError ==
  /\ pc = "termiosreset"
  /\ ReturnError
  /\ fault' = TRUE
  /\ UNCHANGED <<classifierVars, os, buf, wrote, nreads, historyVars, ioVars,
                 tomaster, setupVars, colourVars, oldVars,
                 readfds, child, sigchld, fdslave, termios>>

(* ansicolourreset(stdout), then return 0. *)
ColourReset ==
  /\ pc = "ansicolourreset"
  /\ wrote' = ansicolourreset
  /\ pc' = "done"
  /\ ret' = 0
  /\ UNCHANGED <<classifierVars, os, buf, nreads, historyVars, ioVars,
                 tomaster, setupVars, colourVars, oldVars,
                 readfds, child, sigchld, fdslave, termios, fault>>

SessionNext ==
  \/ ChildExits
  \/ signalchildstoppedorterminated
  \/ \E fds \in SUBSET {"stdin", "master"} : SelectReady(fds)
  \/ SelectBadDescriptor
  \/ SelectInterrupted
  \/ SelectError
  \/ ReadStdinError
  \/ \E k \in Keys : ForwardKeys(k) \/ ForwardKeysPtyClosed(k) \/ ForwardKeysError(k)
  \/ ReadMasterClosed
  \/ ReadMasterError
  \/ \E b \in SessionChunks : ReadMaster(b)
  \/ \E e \in BOOLEAN : fflush(e)
  \/ clearerr
  \/ OutputReturns
  \/ termiosreset
  \/ TermiosResetError
  \/ ColourReset

SessionSpec == Init /\ [][SessionNext]_vars

----------------------------------------------------------------------------
(* The whole program: main(), start(), the set-up half of parent(), and   *)
(* child() in the forked process, followed by the session.  pc is the     *)
(* call the invoked process is about to make; child is "none" before      *)
(* fork(), "forked" while the child process is in child().                *)

(* The status a process exits with when main() returns r. *)
ExitStatus(r) == r % 256

(* "Usage:  rainbow [ command [ arg ... ] ]\n" *)
UsageText ==
  <<85, 115, 97, 103, 101, 58, 32, 32, 114, 97, 105, 110, 98, 111, 119, 32,
    91, 32, 99, 111, 109, 109, 97, 110, 100, 32, 91, 32, 97, 114, 103, 32,
    46, 46, 46, 32, 93, 32, 93, LF>>

InitProgram ==
  /\ pc = "main"
  /\ readfds = {}
  /\ child = "none"
  /\ sigchld = FALSE
  /\ fdslave = "closed"
  /\ termios = "original"
  /\ ret = 0
  /\ fault = FALSE
  /\ nread = 0
  /\ errno = "none"
  /\ stdouterr = FALSE
  /\ flushes = 0
  /\ nwritten = 0
  /\ tomaster = <<>>
  /\ handler = FALSE
  /\ failed = {}
  /\ childret = 0

(* A set-up call of the invoked process fails: main() returns r. *)
SetupFails(call, r) ==
  /\ failed' = failed \cup {call}
  /\ pc' = "done"
  /\ ret' = r
  /\ UNCHANGED <<classifierVars, os, buf, wrote, nreads, historyVars, ioVars,
                 tomaster, handler, childret, colourVars, oldVars,
                 readfds, child, sigchld, fdslave, termios, fault>>

(* A set-up call of the invoked process succeeds. *)
SetupStep(from, to) ==
  /\ pc = from
  /\ pc' = to
  /\ UNCHANGED <<classifierVars, os, buf, wrote, nreads, historyVars, ioVars,
                 tomaster, setupVars, colourVars, oldVars,
                 readfds, child, sigchld, fdslave, termios, ret, fault>>

(* main() with --help. *)
usage ==
  /\ pc = "main"
  /\ wrote' = fputs(UsageText)
  /\ pc' = "done"
  /\ ret' = 0
  /\ UNCHANGED <<classifierVars, os, buf, nreads, historyVars, ioVars,
                 tomaster, setupVars, colourVars, oldVars,
                 readfds, child, sigchld, fdslave, termios, fault>>

(* startsearchpath(): searchpath() finds no executable of that name. *)
SearchPathError == pc = "main" /\ SetupFails("searchpath", -1)

(* startshell(), startpath(), or startsearchpath() with the name found. *)
startpath == SetupStep("main", "access")

AccessError == pc = "access" /\ SetupFails("access", -1)

AccessOk == SetupStep("access", "pty")

(* pty() fails: start() returns EXIT_FAILURE. *)
PtyError == pc = "pty" /\ SetupFails("pty", 1)

pty ==
  /\ pc = "pty"
  /\ fdslave' = "open"
  /\ pc' = "fork"
  /\ UNCHANGED <<classifierVars, os, buf, wrote, nreads, historyVars, ioVars,
                 tomaster, setupVars, colourVars, oldVars,
                 readfds, child, sigchld, termios, ret, fault>>

ForkError == pc = "fork" /\ SetupFails("fork", -1)

fork ==
  /\ pc = "fork"
  /\ child' = "forked"
  /\ pc' = "windowsizecopy"
  /\ UNCHANGED <<classifierVars, os, buf, wrote, nreads, historyVars, ioVars,
                 tomaster, setupVars, colourVars, oldVars,
                 readfds, sigchld, fdslave, termios, ret, fault>>

WindowSizeCopyError == pc = "windowsizecopy" /\ SetupFails("windowsizecopy", -1)

windowsizecopy == SetupStep("windowsizecopy", "signals")

SignalsError == pc = "signals" /\ SetupFails("signals", -1)

signals ==
  /\ pc = "signals"
  /\ handler' = TRUE
  /\ pc' = "termiosraw"
  /\ UNCHANGED <<classifierVars, os, buf, wrote, nreads, historyVars, ioVars,
                 tomaster, failed, childret, colourVars, oldVars,
                 readfds, child, sigchld, fdslave, termios, ret, fault>>

TermiosRawError == pc = "termiosraw" /\ SetupFails("termiosraw", -1)

(* termiosraw() succeeds and parent() calls loop(). *)
termiosraw ==
  /\ pc = "termiosraw"
  /\ termios' = "raw"
  /\ pc' = "select"
  /\ UNCHANGED <<classifierVars, os, buf, wrote, nreads, historyVars, ioVars,
                 tomaster, setupVars, colourVars, oldVars,
                 readfds, child, sigchld, fdslave, ret, fault>>

(* child(): setsid(), dup2() or execve() fails; child() returns -1, the *)
(* child process exits with it and SIGCHLD is sent.                     *)
ChildReturnError(call) ==
  /\ child = "forked"
  /\ child' = "exited"
  /\ childret' = -1
  /\ failed' = failed \cup {call}
  /\ sigchld' = handler
  /\ UNCHANGED <<classifierVars, os, buf, wrote, nreads, historyVars, ioVars,
                 tomaster, handler, colourVars, oldVars,
                 pc, readfds, fdslave, termios, ret, fault>>

(* child(): execve() replaces the child process by the program. *)
execve ==
  /\ child = "forked"
  /\ child' = "running"
  /\ UNCHANGED <<classifierVars, os, buf, wrote, nreads, historyVars, ioVars,
                 tomaster, setupVars, colourVars, oldVars,
                 pc, readfds, sigchld, fdslave, termios, ret, fault>>

ProgramNext ==
  \/ usage
  \/ SearchPathError
  \/ startpath
  \/ AccessError
  \/ AccessOk
  \/ PtyError
  \/ pty
  \/ ForkError
  \/ fork
  \/ WindowSizeCopyError
  \/ windowsizecopy
  \/ SignalsError
  \/ signals
  \/ TermiosRawError
  \/ termiosraw
  \/ \E call \in {"setsid", "dup2", "execve"} : ChildReturnError(call)
  \/ execve
  \/ SessionNext

ProgramInit == InitClassifier /\ InitProgram /\ InitColour /\ InitOld

ProgramSpec == ProgramInit /\ [][ProgramNext]_vars

----------------------------------------------------------------------------
(* src/rainbow.c, the earlier version of the program: its output(), its  *)
(* loop() and parent(), and its SIGCHLD handler, which closes the pty    *)
(* master.  parent() does not receive the slave descriptor and the       *)
(* process never closes it, so a read of the pty master never meets end  *)
(* of file.  Its definitions carry the prefix Old.                       *)

(* sscanf(keep, "\x1b[%d;%dH", &row, &column) for keep = ESC [ s with s *)
(* made of digits, ';' and letters: the number of conversions and the   *)
(* second number.                                                       *)
OldScanRowColumn(s) ==
  LET first == ScanDigits(s, 1, 0)
      p == first[2]
      second == ScanDigits(s, p + 1, 0)
  IN IF p = 1 THEN [count |-> 0, column |-> 0]
     ELSE IF p > Len(s) \/ s[p] # 59 \/ second[2] = p + 1
     THEN [count |-> 1, column |-> 0]
     ELSE [count |-> 2, column |-> second[1]]

(* The conditions on which the state ansisequence is left. *)
OldSequenceComplete(k) ==
  LET n == Len(k) IN
    \/ k[2] = 91 /\ isalpha(k[n])
    \/ k[2] = 93 /\ k[n] = BEL
    \/ k[2] = 93 /\ k[n - 1] = ESC /\ k[n] = 92
    \/ k[2] = 80 /\ k[n - 1] = ESC /\ k[n] = 92
    \/ n = 3 /\ k[2] = 40
    \/ n = 3 /\ k[2] = 41
    \/ n = 2 /\ k[2] = 61
    \/ n = 2 /\ k[2] = 62
    \/ n = 2 /\ k[2] = 77
    \/ n = 2 /\ k[2] = 99

(* fprintf(stdout, keep) for a keep without '%': the bytes before the *)
(* first NUL.                                                         *)
OldPrintKeep(st, k) ==
  [st EXCEPT !.out = st.out \o fputs(k), !.keep = <<>>, !.state = "text"]

(* One iteration of the for loop of output(). *)
OldStep(st, ch) ==
  CASE st.state = "ansisequence" ->
         LET k == Append(st.keep, ch)
         IN IF k[2] = 91 /\ ch = 72
            THEN IF OldScanRowColumn(SubSeq(k, 3, Len(k))).count = 2
                 THEN OldPrintKeep([st EXCEPT
                                      !.i = OldScanRowColumn(SubSeq(k, 3, Len(k))).column,
                                      !.os = st.os + 1], k)
                 ELSE OldPrintKeep(st, k)
            ELSE IF OldSequenceComplete(k) THEN OldPrintKeep(st, k)
            ELSE [st EXCEPT !.keep = k]
    [] st.state = "utf8" ->
         LET k == Append(st.keep, ch)
         IN IF Utf8Closes(k)
            THEN [st EXCEPT !.out = st.out \o <<ColourItem(Spread * st.os + st.i)>> \o fputs(k),
                            !.keep = <<>>,
                            !.state = "text"]
            ELSE [st EXCEPT !.keep = k]
    [] st.state = "text" ->
         IF ch = ESC THEN [st EXCEPT !.keep = <<ch>>, !.state = "ansisequence"]
         ELSE IF ch >= HighBit THEN [st EXCEPT !.keep = <<ch>>, !.state = "utf8"]
         ELSE LET st1 == IF ch = LF THEN [st EXCEPT !.os = st.os + 1, !.i = 0]
                         ELSE IF ch = BS THEN [st EXCEPT !.i = st.i - 1]
                         ELSE IF ch = CR THEN [st EXCEPT !.i = 0]
                         ELSE [st EXCEPT !.i = st.i + 1]
              IN [st1 EXCEPT !.out = st.out \o <<ColourItem(Spread * st1.os + st1.i)>> \o fputc(ch)]

RECURSIVE OldFeed(_, _)
OldFeed(st, b) == IF b = <<>> THEN st ELSE OldFeed(OldStep(st, Head(b)), Tail(b))

(* output(stdout, buf, nread, freq, spread, &os, &i), which returns 0. *)
OldOutput(b) ==
  LET st == OldFeed([state |-> state, keep |-> keep, os |-> os, i |-> loopi,
                     out |-> <<>>], b)
  IN /\ state' = st.state
     /\ keep' = st.keep
     /\ os' = st.os
     /\ loopi' = st.i
     /\ wrote' = st.out

(* What the shell writes, without '%'. *)
OldChunks ==
  { <<97>>, <<LF>>, <<ESC>>,
    <<ESC, 91, 50, 59, 51, 72>>,     \* ESC [ 2 ; 3 H
    <<91, 72>>,                      \* [ H
    <<226, 130>>, <<172>> }

(* The variables of the later version, which src/rainbow.c does not have. *)
laterVars ==
  <<parser, row, column, prevrow, prevcolumn, historyVars, fdslave,
    setupVars, colourVars>>

(* The shell terminates and SIGCHLD is sent. *)
OldChildExits ==
  /\ pc # "done"
  /\ child = "running"
  /\ child' = "exited"
  /\ sigchld' = TRUE
  /\ UNCHANGED <<laterVars, ioVars, oldVars, keep, os, buf, wrote, nreads, tomaster,
                 pc, readfds, termios, ret, fault>>

(* The handler: close(g_fdmaster).  It runs between two statements or *)
(* interrupts select(), which then fails with EINTR.                  *)
Oldsignalchildstoppedorterminated ==
  /\ pc # "done"
  /\ sigchld
  /\ sigchld' = FALSE
  /\ fdmaster' = "closed"
  /\ UNCHANGED <<laterVars, ioVars, state, loopi, keep, os, buf, wrote, nreads, tomaster,
                 pc, readfds, child, termios, ret, fault>>

(* select() returns the ready descriptors; the pty master can be among *)
(* them while output of the shell is waiting in the pty.               *)
OldSelectReady(fds) ==
  /\ pc = "select"
  /\ fdmaster = "open"
  /\ fds # {}
  /\ "master" \in fds => nreads < MaxReads
  /\ readfds' = fds
  /\ pc' = IF "stdin" \in fds THEN "readstdin" ELSE "readmaster"
  /\ UNCHANGED <<laterVars, ioVars, oldVars, keep, os, buf, wrote, nreads, tomaster,
                 child, sigchld, termios, ret, fault>>

(* select() on the closed descriptor fails with EBADF: break, and loop() *)
(* returns 0.                                                            *)
OldSelectBadDescriptor ==
  /\ pc = "select"
  /\ fdmaster = "closed"
  /\ pc' = "termiosreset"
  /\ UNCHANGED <<laterVars, ioVars, oldVars, keep, os, buf, wrote, nreads, tomaster,
                 readfds, child, sigchld, termios, ret, fault>>

(* select(), read(fdstdin) or read(fdmaster) fails for a reason other *)
(* than the closed descriptor: return returnperror(..., -1).          *)
OldSystemCallError(at) ==
  /\ pc = at
  /\ fdmaster = "open"
  /\ ReturnError
  /\ fault' = TRUE
  /\ UNCHANGED <<laterVars, ioVars, oldVars, keep, os, buf, wrote, nreads, tomaster,
                 readfds, child, sigchld, termios>>

(* read(fdstdin) returns k and write(fdmaster) takes all of it. *)
OldForwardKeys(k) ==
  /\ pc = "readstdin"
  /\ fdmaster = "open"
  /\ buf' = k
  /\ tomaster' = k
  /\ pc' = AfterStdin
  /\ UNCHANGED <<laterVars, ioVars, oldVars, keep, os, wrote, nreads,
                 readfds, child, sigchld, termios, ret, fault>>

(* read(fdstdin) returns k and write(fdmaster) fails with EBADF. *)
OldForwardKeysBadDescriptor(k) ==
  /\ pc = "readstdin"
  /\ fdmaster = "closed"
  /\ buf' = k
  /\ tomaster' = <<>>
  /\ ReturnError
  /\ UNCHANGED <<laterVars, ioVars, oldVars, keep, os, wrote, nreads,
                 readfds, child, sigchld, termios, fault>>

(* read(fdmaster) fails with EBADF. *)
OldReadMasterBadDescriptor ==
  /\ pc = "readmaster"
  /\ fdmaster = "closed"
  /\ ReturnError
  /\ UNCHANGED <<laterVars, ioVars, oldVars, keep, os, buf, wrote, nreads, tomaster,
                 readfds, child, sigchld, termios, fault>>

(* read(fdmaster) returns the bytes b: output(). *)
OldReadMaster(b) ==
  /\ pc = "readmaster"
  /\ fdmaster = "open"
  /\ nreads < MaxReads
  /\ nreads' = nreads + 1
  /\ buf' = b
  /\ OldOutput(b)
  /\ pc' = "select"
  /\ UNCHANGED <<laterVars, ioVars, fdmaster, tomaster,
                 readfds, child, sigchld, termios, ret, fault>>

(* termiosreset() and ansicolourreset(), the same as in the later version. *)
OldNext ==
  \/ OldChildExits
  \/ Oldsignalchildstoppedorterminated
  \/ \E fds \in SUBSET {"stdin", "master"} : OldSelectReady(fds)
  \/ OldSelectBadDescriptor
  \/ \E at \in {"select", "readstdin", "readmaster"} : OldSystemCallError(at)
  \/ \E k \in Keys : OldForwardKeys(k) \/ OldForwardKeysBadDescriptor(k)
  \/ OldReadMasterBadDescriptor
  \/ \E b \in OldChunks : OldReadMaster(b)
  \/ termiosreset
  \/ TermiosResetError
  \/ ColourReset

OldSpec == Init /\ [][OldNext]_vars

----------------------------------------------------------------------------
(* ansicolour8bit(), which no function of the program calls: it is applied *)
(* here to arguments drawn from the values a colour channel can take.      *)

(* The decimal digits printf's %d writes for n >= 0. *)
RECURSIVE Decimal(_)
Decimal(n) == IF n < 10 THEN <<48 + n>> ELSE Decimal(n \div 10) \o <<48 + (n % 10)>>

(* int red1 = red / 256.0 * 5: the product is exact in floating point and *)
(* the conversion to int drops the fraction.                              *)
Scale(v) == (v * 5) \div 256

(* The value of colour in ansicolour8bit(stream, red, green, blue). *)
ansicolour8bit(red, green, blue) == 16 + 36 * Scale(red) + 6 * Scale(green) + Scale(blue)

(* Channel values: the ends of the range and both sides of the values *)
(* where v * 5 / 256 and v * 6 / 256 step.                            *)
Channels == {0, 42, 43, 51, 52, 127, 128, 213, 214, 255}

InitChannels ==
  /\ rgb \in [red : Channels, green : Channels, blue : Channels]
  /\ colour = 0

ColourInit == InitClassifier /\ InitLoop /\ InitChannels /\ InitOld

(* The call: fprintf(stream, "\x1b[38;5;%dm", colour). *)
Colour8bitCall ==
  /\ colour = 0
  /\ colour' = ansicolour8bit(rgb.red, rgb.green, rgb.blue)
  /\ wrote' = Items(<<ESC, 91, 51, 56, 59, 53, 59>> \o Decimal(colour') \o <<109>>)
  /\ UNCHANGED <<classifierVars, os, buf, nreads, historyVars, sessionVars,
                 tomaster, setupVars, rgb, oldVars>>

ColourNext == Colour8bitCall

ColourSpec == ColourInit /\ [][ColourNext]_vars

----------------------------------------------------------------------------
(* Properties of the classifier.  They read the last call of output():    *)
(* pre is the state it was called in, buf what it was given, wrote what   *)
(* it wrote, and the classifier variables the state it left.              *)

Called == nreads > 0

CalledInText == Called /\ pre.parser = "parsetext"

TextState ==
  [parser |-> "parsetext", row |-> 1, column |-> 1, keep |-> <<>>,
   prevrow |-> 0, prevcolumn |-> 0, os |-> 0, out |-> <<>>]

(* The second bytes of CSI, OSC, DCS and the fixed-length legacy forms: *)
(* [ ] P ( ) = > 7 8 H M c                                              *)
SequenceIntroducers == {91, 93, 80, 40, 41, 61, 62, 55, 56, 72, 77, 99}

(* b is one complete escape sequence of those forms for the classifier *)
(* started in Text: it returns to Text at the last byte of b and not   *)
(* before.                                                             *)
OneCompleteSequence(b) ==
  /\ Len(b) >= 2
  /\ b[1] = ESC
  /\ b[2] \in SequenceIntroducers
  /\ Feed(TextState, b).parser = "parsetext"
  /\ \A i \in 1..(Len(b) - 1) :
       Feed(TextState, SubSeq(b, 1, i)).parser = "parseescapesequence"

(* C1: a complete CSI, OSC, DCS or fixed-length legacy sequence received *)
(* in Text is written exactly as received, with no colour-set sequence.  *)
C1_VerbatimPassThrough ==
  (CalledInText /\ OneCompleteSequence(buf)) => wrote = Items(buf)

TitleSequence == <<ESC, 107, 116, ESC, 92>>     \* ESC k t ESC \

(* C2: a title sequence ESC k <title> ESC \ received in Text is written *)
(* exactly as received, with no colour-set sequence inside it.          *)
C2_TitleVerbatim ==
  (CalledInText /\ buf = TitleSequence) =>
    (wrote = Items(buf) /\ NumColours(wrote) = 0)

(* C3: for every call of output(), the bytes held in keep before it     *)
(* followed by the bytes it was given equal the child bytes it wrote    *)
(* followed by the bytes it left in keep; so, over all calls, what was  *)
(* written without the colour-set sequences, followed by keep, is what  *)
(* was consumed.                                                        *)
C3_NoByteLost ==
  Called => ChildBytes(wrote) \o keep = pre.keep \o buf

(* The length the lead byte announces: 110xxxxx 2, 1110xxxx 3, 11110xxx 4. *)
Utf8Length(lead) ==
  IF lead \div 32 = 6 THEN 2
  ELSE IF lead \div 16 = 14 THEN 3
  ELSE IF lead \div 8 = 30 THEN 4
  ELSE 0

(* C4: after a lead byte received in Text nothing is written until the *)
(* announced number of bytes has accumulated; then one colour-set      *)
(* sequence, computed from the column plus one, and all the bytes are  *)
(* written, the column advances by one, the row stays, and the parser  *)
(* is back in Text.                                                    *)
C4_Utf8Atomic ==
  (CalledInText /\ buf # <<>> /\ Utf8Length(buf[1]) > 0
     /\ Len(buf) <= Utf8Length(buf[1])) =>
    IF Len(buf) < Utf8Length(buf[1])
    THEN /\ wrote = <<>>
         /\ parser = "parseutf8"
         /\ row = pre.row
         /\ column = pre.column
    ELSE /\ wrote = <<ColourItem(Phase(os, pre.row, pre.column + 1))>> \o Items(buf)
         /\ row = pre.row
         /\ column = pre.column + 1
         /\ parser = "parsetext"

----------------------------------------------------------------------------
LeaveCompleted == CalledInText /\ buf = xtermdisablealternativebuffer

(* C5: when ESC[?1049l completes after ESC[?1049h completed at (r, c),  *)
(* the cursor is (r, c) again whatever moved it in between; and the     *)
(* saved slot always holds the cursor of the last ESC[?1049h (0, 0      *)
(* before the first): nothing else writes it.                           *)
C5_AltScreenRoundTrip ==
  /\ (LeaveCompleted /\ entered) => (row = entry.row /\ column = entry.column)
  /\ prevrow = entry.row
  /\ prevcolumn = entry.column

(* ESC[?1049l has just restored (5, 10), the cursor of the last *)
(* ESC[?1049h, from somewhere else.                             *)
C5_Witness ==
  /\ LeaveCompleted
  /\ entered
  /\ entry = [row |-> 5, column |-> 10]
  /\ (pre.row # 5 \/ pre.column # 10)
  /\ row = 5
  /\ column = 10

----------------------------------------------------------------------------
(* CSI sequences with the decimal parameters that follow '['. *)
CsiCases ==
  { [b |-> <<ESC, 91, 53, 59, 49, 48, 72>>, final |-> "H", params |-> <<5, 10>>],
    [b |-> <<ESC, 91, 50, 65>>,             final |-> "A", params |-> <<2>>],
    [b |-> <<ESC, 91, 66>>,                 final |-> "B", params |-> <<>>],
    [b |-> <<ESC, 91, 51, 67>>,             final |-> "C", params |-> <<3>>],
    [b |-> <<ESC, 91, 68>>,                 final |-> "D", params |-> <<>>],
    [b |-> <<ESC, 91, 50, 69>>,             final |-> "E", params |-> <<2>>],
    [b |-> <<ESC, 91, 70>>,                 final |-> "F", params |-> <<>>],
    [b |-> <<ESC, 91, 55, 71>>,             final |-> "G", params |-> <<7>>],
    [b |-> <<ESC, 91, 51, 59, 52, 102>>,    final |-> "f", params |-> <<3, 4>>],
    [b |-> <<ESC, 91, 48, 59, 48, 72>>,     final |-> "H", params |-> <<0, 0>>],
    [b |-> <<ESC, 91, 50, 64>>,             final |-> "@", params |-> <<2>>] }

(* The i-th parameter, taken as 1 when absent or zero. *)
CsiParam(t, i) ==
  IF Len(t.params) >= i /\ t.params[i] # 0 THEN t.params[i] ELSE 1

(* The cursor the claim gives for terminator final from (r, c). *)
CsiClaimed(final, n, m, r, c) ==
  CASE final = "A" -> [row |-> r - n, column |-> c]
    [] final = "B" -> [row |-> r + n, column |-> c]
    [] final = "C" -> [row |-> r, column |-> c + n]
    [] final = "D" -> [row |-> r, column |-> c - n]
    [] final = "E" -> [row |-> r + n, column |-> 1]
    [] final = "F" -> [row |-> r - n, column |-> 1]
    [] final = "G" -> [row |-> r, column |-> n]
    [] final = "H" -> [row |-> n, column |-> m]
    [] final = "f" -> [row |-> n, column |-> m]
    [] final = "@" -> [row |-> r, column |-> c]

(* C6: a CSI sequence completed from Text changes the cursor as the     *)
(* table of its terminator says, with absent or zero parameters taken   *)
(* as 1; CSI 5;10H gives (5, 10) and CSI 2A after it gives (3, 10).     *)
C6_CsiCursorMotion ==
  CalledInText =>
    /\ \A t \in CsiCases :
         buf = t.b =>
           [row |-> row, column |-> column]
             = CsiClaimed(t.final, CsiParam(t, 1), CsiParam(t, 2), pre.row, pre.column)
    /\ buf = <<ESC, 91, 53, 59, 49, 48, 72>> => (row = 5 /\ column = 10)
    /\ (buf = <<ESC, 91, 50, 65>> /\ pre.row = 5 /\ pre.column = 10)
         => (row = 3 /\ column = 10)

(* CSI 2A has just completed at (5, 10), where CSI 5;10H had put the cursor. *)
C6_Witness ==
  /\ CalledInText
  /\ buf = <<ESC, 91, 50, 65>>
  /\ pre.row = 5
  /\ pre.column = 10
  /\ row = 3
  /\ column = 10

----------------------------------------------------------------------------
TabAtColumnThree == CalledInText /\ buf = <<TAB>> /\ pre.column = 3

(* C7, as claimed: a tab received in Text at column 3 sets the column to *)
(* 9 and leaves the row unchanged.                                       *)
C7_TabFromThreeGivesNine ==
  TabAtColumnThree => (column = 9 /\ row = pre.row)

(* C7, amended: a tab received in Text at column 3 sets the column to 8 *)
(* and leaves the row unchanged.                                        *)
C7_TabFromThreeGivesEight ==
  TabAtColumnThree => (column = 8 /\ row = pre.row)

(* A tab has just been received in Text at column 3. *)
C7_Witness == TabAtColumnThree /\ column = 8 /\ row = pre.row

----------------------------------------------------------------------------
PlainByteInText ==
  CalledInText /\ Len(buf) = 1 /\ buf[1] # ESC /\ buf[1] < HighBit

(* C8: a byte received in Text that is neither ESC nor high-bit first     *)
(* moves the cursor (newline: row + 1, column 1; carriage return: column  *)
(* 1; backspace: column - 1; tab: row unchanged, the column as the tab    *)
(* rule sets it; any other byte: column + 1), then writes one colour-set  *)
(* sequence of phase offset + row + column / spread of the new position   *)
(* followed by the byte, and stays in Text.                               *)
C8_PlainByte ==
  PlainByteInText =>
    /\ CASE buf[1] = LF  -> row = pre.row + 1 /\ column = 1
         [] buf[1] = CR  -> row = pre.row /\ column = 1
         [] buf[1] = BS  -> row = pre.row /\ column = pre.column - 1
         [] buf[1] = TAB -> row = pre.row
         [] OTHER        -> row = pre.row /\ column = pre.column + 1
    /\ wrote = <<ColourItem(Spread * (os + row) + column), ByteItem(buf[1])>>
    /\ parser = "parsetext"
    /\ keep = pre.keep

(* A newline has just been received in Text, away from column 1. *)
C8_Witness ==
  /\ PlainByteInText
  /\ buf = <<LF>>
  /\ pre.column > 1
  /\ row = pre.row + 1
  /\ column = 1

----------------------------------------------------------------------------
(* Properties of the session. *)

(* C9: when the child has exited while loop() was running and no system *)
(* call has failed for an unrelated reason, parent() ends with loop()   *)
(* having returned 0: it returns 0, the terminal is back in its         *)
(* original mode, and ESC[0m is the last thing written.                 *)
C9_ChildExitCleanTeardown ==
  (pc = "done" /\ child = "exited" /\ ~fault) =>
    (ret = 0 /\ termios = "original" /\ wrote = ansicolourreset)

(* C10: however the session ends once loop() has started, ESC[0m has *)
(* been written to stdout, and last.                                 *)
C10_ColourResetOnEveryExit ==
  pc = "done" => wrote = ansicolourreset

----------------------------------------------------------------------------
(* Properties of the program's exit status. *)

(* The set-up failures C11 names: the program is not found or is not     *)
(* executable, the pty cannot be allocated, fork() fails, raw mode cannot *)
(* be entered, the program cannot be executed in the child.              *)
SetupErrors == {"searchpath", "access", "pty", "fork", "termiosraw", "execve"}

(* The child terminated and the teardown was carried out. *)
CleanEnd ==
  /\ child = "exited"
  /\ failed = {}
  /\ ~fault
  /\ termios = "original"
  /\ wrote = ansicolourreset

(* C11: when the invoked process has exited, its exit status is 0 if the *)
(* child terminated and the teardown succeeded, and it is not 0 if one   *)
(* of the set-up failures occurred.                                      *)
C11_ExitStatus ==
  pc = "done" =>
    /\ CleanEnd => ExitStatus(ret) = 0
    /\ failed \cap SetupErrors # {} => ExitStatus(ret) # 0

----------------------------------------------------------------------------
(* Properties of the stdin branch of loop(). *)

(* C12: the step that serves stdin leaves the parser state, the cursor, *)
(* the saved cursor and the accumulation buffer as they were, calls the  *)
(* classifier for nothing and writes nothing to stdout; the pty master   *)
(* is given exactly the bytes read, in order, or else loop() returns -1. *)
C12_KeysForwarded ==
  [][(pc = "readstdin" /\ pc' # "readstdin") =>
       /\ UNCHANGED <<classifierVars, os, wrote, nreads, pre>>
       /\ tomaster' = buf' \/ (pc' = "done" /\ ret' = -1)
       /\ pc' # "done" => tomaster' = buf']_vars

(* A cursor-up key has been forwarded while an escape sequence of the *)
(* child is being accumulated, and the loop goes on.                  *)
C12_Witness ==
  /\ tomaster = <<ESC, 91, 65>>
  /\ buf = tomaster
  /\ pc \in {"select", "readmaster"}
  /\ parser = "parseescapesequence"
  /\ keep = <<ESC>>

----------------------------------------------------------------------------
(* Properties of the 8-bit colour form. *)

(* C13: the index ansicolour8bit() computes from R, G, B is               *)
(* 16 + 36*floor(R*6/256) + 6*floor(G*6/256) + floor(B*6/256), a value of *)
(* 16..231, and it is the number written between ESC[38;5; and m.         *)
C13_ColourCube ==
  colour # 0 =>
    /\ colour = 16 + 36 * ((rgb.red * 6) \div 256)
                   + 6 * ((rgb.green * 6) \div 256)
                   + ((rgb.blue * 6) \div 256)
    /\ colour \in 16..231
    /\ wrote = Items(<<ESC, 91, 51, 56, 59, 53, 59>> \o Decimal(colour) \o <<109>>)

----------------------------------------------------------------------------
(* Properties of the parser states. *)

(* A byte with the high bit set that is no lead byte of a 2-, 3- or *)
(* 4-byte character: 10xxxxxx or 11111xxx.                           *)
StrayHighBit(ch) == ch >= HighBit /\ Utf8Length(ch) = 0

(* C14: such a byte received in Text is a character of length 1: it is *)
(* written at once under one colour and the parser is in Text again.   *)
C14_StrayHighBitByte ==
  (CalledInText /\ Len(buf) = 1 /\ StrayHighBit(buf[1])) =>
    /\ parser = "parsetext"
    /\ keep = <<>>
    /\ ChildBytes(wrote) = buf
    /\ NumColours(wrote) = 1

ParserStates == {"parsetext", "parseescapesequence", "parseutf8"}

(* The classifier after the first j bytes of the last call of output(). *)
After(j) ==
  Feed([parser |-> pre.parser, row |-> pre.row, column |-> pre.column,
        keep |-> pre.keep, prevrow |-> 0, prevcolumn |-> 0, os |-> os,
        out |-> <<>>],
       SubSeq(buf, 1, j))

(* C15: the parser is in one of the three states; a byte takes it into  *)
(* EscapeSequence only from Text and only if it is ESC, into             *)
(* Utf8Continuation only from Text and only if it has the high bit set;  *)
(* from either of the two a byte leaves it there or takes it to Text,    *)
(* and is accumulated or written with what was accumulated.              *)
C15_ParserTransitions ==
  /\ parser \in ParserStates
  /\ Called =>
       \A j \in 1..Len(buf) :
         LET a == After(j - 1)
             b == After(j)
             ch == buf[j]
         IN /\ b.parser \in ParserStates
            /\ (b.parser = "parseescapesequence" /\ a.parser # b.parser)
                 => (a.parser = "parsetext" /\ ch = ESC)
            /\ (b.parser = "parseutf8" /\ a.parser # b.parser)
                 => (a.parser = "parsetext" /\ ch >= HighBit)
            /\ a.parser # "parsetext"
                 => \/ b.parser = a.parser /\ b.keep = Append(a.keep, ch)
                    \/ b.parser = "parsetext" /\ b.keep = <<>>

(* An ESC has arrived inside a multi-byte character and has been *)
(* accumulated as its second byte.                               *)
C15_Witness ==
  /\ Called
  /\ pre.parser = "parseutf8"
  /\ pre.keep = <<226>>
  /\ buf = <<ESC>>
  /\ parser = "parseutf8"
  /\ keep = <<226, ESC>>

----------------------------------------------------------------------------
(* Properties of the accumulation buffer. *)

(* C16: the number of bytes held in keep never exceeds the size of keep. *)
C16_KeepWithinCapacity == Len(keep) <= KeepSize

----------------------------------------------------------------------------
(* Properties of the teardown. *)

(* C17: when parent() has returned after the terminal was put in raw    *)
(* mode, the terminal is in its original mode again, whether the child  *)
(* terminated or a failed system call ended loop().                     *)
C17_ModeRestoredOnEveryExit == pc = "done" => termios = "original"

----------------------------------------------------------------------------
(* Properties of the tab rule for every column. *)

(* The smallest multiple of the tab width that is greater than c. *)
NextTabStop(c) == TabStop * ((c \div TabStop) + 1)

(* C18: a tab received in Text sets the column to the smallest multiple *)
(* of 8 greater than the column it had, zero and negative columns        *)
(* included, and leaves the row unchanged.                               *)
C18_TabToNextMultiple ==
  (CalledInText /\ buf = <<TAB>>) =>
    /\ column = NextTabStop(pre.column)
    /\ row = pre.row

----------------------------------------------------------------------------
(* Properties of an escape sequence of no recognised form. *)

(* k is ESC followed by a byte other than [ ] P ( ) = > 7 8 H M c k \ *)
Unrecognised(k) ==
  /\ Len(k) >= 2
  /\ k[1] = ESC
  /\ k[2] \notin SequenceIntroducers \cup {107, 92}

(* C19: once the bytes accumulated in EscapeSequence begin with ESC and *)
(* a byte of no recognised form, every byte that arrives is added to    *)
(* them, the parser stays in EscapeSequence, nothing is written and the *)
(* cursor does not move.                                                *)
C19_UnrecognisedNeverLeaves ==
  Called =>
    \A j \in 1..Len(buf) :
      LET a == After(j - 1)
          b == After(j)
      IN (a.parser = "parseescapesequence" /\ Unrecognised(Append(a.keep, buf[j])))
           => /\ b.parser = "parseescapesequence"
              /\ b.keep = Append(a.keep, buf[j])
              /\ b.out = a.out
              /\ b.row = a.row
              /\ b.column = a.column

(* After ESC X a complete title sequence ending in BEL has arrived, and *)
(* all of it has been accumulated.                                      *)
C19_Witness ==
  /\ Called
  /\ pre.parser = "parseescapesequence"
  /\ pre.keep = <<ESC, 88>>
  /\ buf = <<ESC, 93, 48, 59, 116, BEL>>
  /\ parser = "parseescapesequence"
  /\ keep = pre.keep \o buf
  /\ wrote = <<>>

----------------------------------------------------------------------------
(* Properties of src/rainbow.c. *)

(* C20: in src/rainbow.c, when parent() has returned after the handler *)
(* closed the pty master and no system call failed for another reason, *)
(* it has returned 0, the terminal is in its original mode and the     *)
(* colour reset is the last thing written.                             *)
C20_OldChildExitCleanTeardown ==
  (pc = "done" /\ fdmaster = "closed" /\ ~fault) =>
    /\ ret = 0
    /\ termios = "original"
    /\ wrote = ansicolourreset

----------------------------------------------------------------------------
(* Properties of the classifier across calls. *)

(* The classifier after one call of output() with all of s, from the *)
(* state the session begins in.                                       *)
OneCall(s) ==
  Feed([parser |-> "parsetext", row |-> 1, column |-> 1, keep |-> <<>>,
        prevrow |-> 0, prevcolumn |-> 0, os |-> os, out |-> <<>>], s)

(* C21: however the stream of the child was cut into reads, what has   *)
(* been written, the parser state, the cursor, the saved cursor and    *)
(* the accumulated bytes are those one call with the whole stream      *)
(* gives; so two ways of cutting the same stream give the same.        *)
C21_SplitIndependent ==
  LET one == OneCall(fed)
  IN /\ total = one.out
     /\ parser = one.parser
     /\ row = one.row
     /\ column = one.column
     /\ prevrow = one.prevrow
     /\ prevcolumn = one.prevcolumn
     /\ keep = one.keep

(* The alternate-screen enter sequence has arrived in one read and the *)
(* leave sequence in two, cut after "ESC[?1".                          *)
C21_Witness ==
  /\ nreads = 3
  /\ fed = xtermenablealternativebuffer \o xtermdisablealternativebuffer
  /\ buf = <<48, 52, 57, 108>>
  /\ parser = "parsetext"
  /\ row = 1
  /\ column = 1

----------------------------------------------------------------------------
(* Properties of the cursor under escape sequences. *)

(* The sequences that move the cursor: a CSI ended by A B C D E F G H *)
(* or f, the alternate-screen leave sequence, and ESC c.              *)
MovesCursor(b) ==
  \/ b[2] = 91 /\ b[Len(b)] \in {65, 66, 67, 68, 69, 70, 71, 72, 102}
  \/ b = xtermdisablealternativebuffer
  \/ b = <<ESC, 99>>

(* C22: a complete escape sequence received in Text, of the CSI, OSC,   *)
(* DCS, fixed-length or title forms, that is none of those that move    *)
(* the cursor leaves the row and the column unchanged; and a byte that  *)
(* leaves the parser in EscapeSequence leaves them unchanged.           *)
C22_CursorFrame ==
  /\ (CalledInText /\ (OneCompleteSequence(buf) \/ buf = TitleSequence)
        /\ ~MovesCursor(buf))
       => (row = pre.row /\ column = pre.column)
  /\ Called =>
       \A j \in 1..Len(buf) :
         LET a == After(j - 1)
             b == After(j)
         IN (a.parser = "parseescapesequence" /\ b.parser = "parseescapesequence")
              => (b.row = a.row /\ b.column = a.column)

----------------------------------------------------------------------------
(* Properties of the relay loop. *)

(* loop() has returned 0: parent() goes on to termiosreset(). *)
CleanExit == pc' = "termiosreset" /\ ret' = ret

(* loop() has returned -1, and parent() with it. *)
ErrorExit == pc' = "done" /\ ret' = -1

(* C23: a read of the pty master that returns 0 or fails with EIO ends  *)
(* the loop with loop() returning 0 and nothing given to output(); a    *)
(* read of the pty master or of stdin that fails with another errno     *)
(* ends the loop with loop() returning -1.                              *)
C23_ReadOutcomes ==
  [][/\ (pc = "readmaster" /\ pc' # pc
           /\ (nread' = 0 \/ (nread' = -1 /\ errno' = "EIO")))
          => (CleanExit /\ UNCHANGED <<classifierVars, os, buf, wrote, nreads, pre>>)
     /\ (pc \in {"readmaster", "readstdin"} /\ pc' # pc
           /\ nread' = -1 /\ errno' # "EIO")
          => ErrorExit]_vars

(* After two reads were classified the child has gone, the read of the *)
(* pty master has failed with EIO, and loop() has returned 0.          *)
C23_Witness ==
  /\ pc = "termiosreset"
  /\ nread = -1
  /\ errno = "EIO"
  /\ nreads = 2
  /\ ret = 0
  /\ ~fault

(* loop() is in its for (;;). *)
Running == {"select", "readstdin", "readmaster", "fflush", "ferror"}

(* C24: loop() leaves its for (;;) only by returning 0 after a read of   *)
(* the pty master that returned 0 or failed with EIO or after a select() *)
(* that failed with EBADF, or by returning -1 after a select() that      *)
(* failed with another errno than EINTR, a read() that failed or a       *)
(* write() that did not return nread; a select() that failed with EINTR  *)
(* and a read of stdin that returned 0, written as 0 bytes, leave it in  *)
(* the loop.                                                             *)
C24_LoopExits ==
  [][/\ (pc \in Running /\ pc' \notin Running) =>
          \/ /\ pc = "readmaster"
             /\ nread' = 0 \/ (nread' = -1 /\ errno' = "EIO")
             /\ CleanExit
          \/ /\ pc = "select"
             /\ errno' = "EBADF"
             /\ CleanExit
          \/ /\ pc = "select"
             /\ errno' \notin {"none", "EINTR", "EBADF"}
             /\ ErrorExit
          \/ /\ pc \in {"readstdin", "readmaster"}
             /\ nread' = -1
             /\ ErrorExit
          \/ /\ pc = "readstdin"
             /\ nread' >= 0
             /\ nwritten' # nread'
             /\ ErrorExit
     /\ (pc = "select" /\ errno' = "EINTR") => pc' \in Running
     /\ (pc = "readstdin" /\ pc' # pc /\ nread' = 0 /\ nwritten' = 0)
          => pc' \in Running]_vars

(* select() was interrupted by SIGCHLD, then stdin was at end-of-file, *)
(* and loop() is about to read the pty master.                         *)
C24_Witness ==
  /\ pc = "readmaster"
  /\ errno = "EINTR"
  /\ nread = 0
  /\ nwritten = 0
  /\ buf = <<>>
  /\ nreads = 1

(* output() is in its flush loop. *)
Flushing == {"fflush", "ferror"}

(* C25: from its flush loop output() goes nowhere but back to loop()     *)
(* with the value 0, never to the return of -1; when ferror(stdout) is   *)
(* set after a flush the indicator is cleared and fflush() is called     *)
(* again; output() returns only when ferror(stdout) is not set after a   *)
(* flush, so that loop() never runs with the indicator set.              *)
C25_StdoutErrorsNotFatal ==
  [][/\ pc \in Flushing => (pc' \in Flushing \union {"select"} /\ ret' = ret)
     /\ (pc = "ferror" /\ stdouterr /\ pc' # pc)
          => (pc' = "fflush" /\ ~stdouterr')
     /\ (pc \in Flushing /\ pc' = "select")
          => (pc = "ferror" /\ ~stdouterr /\ ~stdouterr')
     /\ pc \in {"select", "readstdin", "readmaster"} => ~stdouterr]_vars

(* A flush failed in the second call of output(), the indicator was *)
(* cleared, the next flush went through, and loop() goes on.        *)
C25_Witness ==
  /\ pc = "select"
  /\ flushes = 1
  /\ ~stdouterr
  /\ nreads = 2
  /\ ret = 0
====
